---- MODULE Spec2Model ----
(***************************************************************************)
(* A model of the array-backed binary Merkle tree of src/src/merkle_tree.rs *)
(* (struct MerkleTree: new, root_hash, num_leaves, set, create_proof,       *)
(* verify_proof and the private index arithmetic).                          *)
(*                                                                          *)
(* Digests are modelled symbolically: a leaf value is a one-element tuple   *)
(* <<v>>, and the SHA3-256 digest of the 64 bytes a || b is the pair        *)
(* <<a, b>>, so the hash is collision free and keeps the order of its two   *)
(* inputs.  usize arithmetic keeps its width: WordBits bits, overflow       *)
(* either panics (overflow-checks on, the debug profile) or wraps (off, the *)
(* release profile); the profile is chosen when the program is built.       *)
(*                                                                          *)
(* Spec is a caller that builds one tree and calls its public methods;      *)
(* SpecIndex calls the private index functions on their own.                *)
(***************************************************************************)
EXTENDS Integers, Sequences, FiniteSets, TLC

\* Bounds of the model.
MaxDepth == 3
MaxSets == 2

\* usize::BITS of the target (a 16-bit target, so that every word fits TLC's integers).
WordBits == 16

VARIABLES
    overflow_checks,  \* build profile: TRUE = arithmetic overflow panics, FALSE = it wraps
    phase,            \* the caller's position: "start" (no tree yet), "idle" (between
                      \* calls), "returned" (a call returned and its result is in
                      \* hand), "panicked" (the last call panicked)
    depth,            \* MerkleTree.depth
    nodes,            \* MerkleTree.nodes, indexed from 0 in breadth-first order
    call,             \* the last call made and its arguments
    ret,              \* what the last call returned, or the panic that ended it
    held,             \* the proof the caller keeps from its last create_proof
    nsets             \* number of set calls that returned

vars == <<overflow_checks, phase, depth, nodes, call, ret, held, nsets>>

----------------------------------------------------------------------------
\* Digests and the hash primitive.

NoDigest == <<>>

\* two distinct leaf values
Values == {<<0>>, <<1>>}

\* Sha3_256::new(); update(a); update(b); finalize()
hash(a, b) == <<a, b>>

----------------------------------------------------------------------------
\* usize arithmetic.  PANIC stands for "this evaluation panicked"; it is no usize.

WordModulus == 2^WordBits

PANIC == WordModulus

usize_add(a, b) ==
    IF a = PANIC \/ b = PANIC THEN PANIC
    ELSE IF a + b < WordModulus THEN a + b
    ELSE IF overflow_checks THEN PANIC
    ELSE (a + b) % WordModulus

usize_sub(a, b) ==
    IF a = PANIC \/ b = PANIC THEN PANIC
    ELSE IF a >= b THEN a - b
    ELSE IF overflow_checks THEN PANIC
    ELSE (a - b) + WordModulus

usize_mul(a, b) ==
    IF a = PANIC \/ b = PANIC THEN PANIC
    ELSE IF a * b < WordModulus THEN a * b
    ELSE IF overflow_checks THEN PANIC
    ELSE (a * b) % WordModulus

\* 1 << s: a shift amount >= usize::BITS panics under overflow checks and is
\* masked to its low bits otherwise.
usize_shl1(s) ==
    IF s = PANIC THEN PANIC
    ELSE IF s < WordBits THEN 2^s
    ELSE IF overflow_checks THEN PANIC
    ELSE 2^(s % WordBits)

\* x.leading_zeros()
leading_zeros(x) ==
    IF x = 0 THEN WordBits
    ELSE CHOOSE z \in 0..(WordBits - 1) :
            2^(WordBits - z - 1) <= x /\ x < 2^(WordBits - z)

----------------------------------------------------------------------------
\* The private index arithmetic of MerkleTree.

\* mutant: the full layer count 2^depth, without the "- 1"
nodes_in_tree_plus_one(d) == usize_shl1(d)

nodes_in_tree(d) == usize_sub(usize_shl1(d), 1)

index(d, offset) == usize_add(nodes_in_tree(d), offset)

\* mutant: the offset is carried up without halving
parent_index_same_offset(d, offset) ==
    IF offset = PANIC THEN PANIC ELSE index(usize_sub(d, 1), offset)

parent_index(d, offset) ==
    IF offset = PANIC THEN PANIC ELSE index(usize_sub(d, 1), offset \div 2)

first_child_index(d, offset) == index(usize_add(d, 1), usize_mul(offset, 2))

second_child_index(d, offset) ==
    index(usize_add(d, 1), usize_add(usize_mul(offset, 2), 1))

log2(x) ==
    IF x = 0 THEN 0 ELSE usize_sub(usize_sub(WordBits, leading_zeros(x)), 1)

\* (depth, offset) of a node given its index; <<PANIC, PANIC>> when it panics
depth_offset(i) ==
    LET i1 == usize_add(i, 1)
        d == IF i1 = PANIC THEN PANIC ELSE log2(i1)
        offset == usize_sub(i, nodes_in_tree(d))
    IN IF d = PANIC \/ offset = PANIC THEN <<PANIC, PANIC>> ELSE <<d, offset>>

----------------------------------------------------------------------------
\* MerkleTree::new

\* the hash of layer d's nodes: "compute hash of (d, 0)"
new_layer_hash(ns, d) ==
    hash(ns[first_child_index(d, 0)], ns[second_child_index(d, 0)])

\* mutant: the inner loop stops one node short of the end of the layer
new_layer_indices_short(d) == {index(d, i) : i \in 0..(usize_shl1(d) - 2)}

\* the indices the inner loop `for i in 0..(1 << d)` writes
new_layer_indices(d) == {index(d, i) : i \in 0..(usize_shl1(d) - 1)}

\* the loop `for d in (0..depth - 1).rev()` with k iterations left (d = k - 1);
\* hashed lists the layers a hash was computed for, in order
RECURSIVE new_layers(_, _, _)
new_layers(ns, k, hashed) ==
    IF k = 0 THEN [nodes |-> ns, hashed |-> hashed]
    ELSE LET d == k - 1
             h == new_layer_hash(ns, d)
             layer == new_layer_indices(d)
         IN new_layers([i \in DOMAIN ns |-> IF i \in layer THEN h ELSE ns[i]],
                       k - 1, Append(hashed, d))

\* mutant: no depth check, depth 0 yields a tree without nodes
new_unchecked(d, initial_value) ==
    IF d < 1
    THEN [panic |-> "", depth |-> d, nodes |-> <<>>, hashed |-> <<>>]
    ELSE LET filled == [i \in 0..(nodes_in_tree(d) - 1) |-> initial_value]
             r == new_layers(filled, d - 1, <<>>)
         IN [panic |-> "", depth |-> d, nodes |-> r.nodes, hashed |-> r.hashed]

\* depth and initial_value are small here, so nothing in new overflows a usize
new(d, initial_value) ==
    IF d < 1
    THEN [panic |-> "Merkle tree depth must be at least 1",
          depth |-> 0, nodes |-> <<>>, hashed |-> <<>>]
    ELSE LET filled == [i \in 0..(nodes_in_tree(d) - 1) |-> initial_value]
             r == new_layers(filled, d - 1, <<>>)
         IN [panic |-> "", depth |-> d, nodes |-> r.nodes, hashed |-> r.hashed]

----------------------------------------------------------------------------
\* MerkleTree::root_hash, MerkleTree::num_leaves

root_hash(self) == self.nodes[0]

\* mutant: shifts by depth, which counts the slots of a layer that does not exist
num_leaves_next_layer(self) == usize_shl1(self.depth)

num_leaves(self) == usize_shl1(usize_sub(self.depth, 1))

----------------------------------------------------------------------------
\* Indexing the node vector: self.nodes[i] panics when i is out of bounds.
\* An index whose computation already panicked never reaches the vector.

fault(ns, i) ==
    IF i = PANIC THEN "arithmetic overflow"
    ELSE IF i \notin DOMAIN ns THEN "index out of bounds"
    ELSE ""

----------------------------------------------------------------------------
\* MerkleTree::set

\* mutant: the children fed to the hasher in the wrong order
set_children_swapped(parent_layer, parent_offset) ==
    <<second_child_index(parent_layer, parent_offset),
      first_child_index(parent_layer, parent_offset)>>

\* the two children set's loop hashes, in the order it feeds them to the hasher
set_children(parent_layer, parent_offset) ==
    <<first_child_index(parent_layer, parent_offset),
      second_child_index(parent_layer, parent_offset)>>

\* mutant: the walk keeps the offset instead of halving it
set_next_same_offset(parent_layer, parent_offset) == <<parent_layer - 1, parent_offset>>

\* the position set's loop moves to after recomputing (parent_layer, parent_offset)
set_next(parent_layer, parent_offset) == <<parent_layer - 1, parent_offset \div 2>>

\* the `loop` of set; hashed lists the indices recomputed so far
RECURSIVE set_loop(_, _, _, _)
set_loop(ns, parent_layer, parent_offset, hashed) ==
    LET ch == set_children(parent_layer, parent_offset)
        ix == index(parent_layer, parent_offset)
        f1 == fault(ns, ch[1])
        f2 == fault(ns, ch[2])
        f3 == fault(ns, ix)
    IN IF f1 # "" THEN [panic |-> f1, nodes |-> ns, hashed |-> hashed]
       ELSE IF f2 # "" THEN [panic |-> f2, nodes |-> ns, hashed |-> hashed]
       ELSE IF f3 # "" THEN [panic |-> f3, nodes |-> ns, hashed |-> hashed]
       ELSE LET ns2 == [ns EXCEPT ![ix] = hash(ns[ch[1]], ns[ch[2]])]
                h2 == Append(hashed, ix)
                nx == set_next(parent_layer, parent_offset)
            IN IF parent_layer = 0
               THEN [panic |-> "", nodes |-> ns2, hashed |-> h2]
               ELSE set_loop(ns2, nx[1], nx[2], h2)

\* mutant: the leaf layer is taken to start at num_leaves, one past its first index
set_leaf_index_off_by_one(self, offset) ==
    usize_add(usize_shl1(usize_sub(self.depth, 1)), offset)

\* "find index of the node to update"
set_leaf_index(self, offset) == index(usize_sub(self.depth, 1), offset)

set(self, offset, value) ==
    LET leaf == set_leaf_index(self, offset)
        f0 == fault(self.nodes, leaf)
    IN IF f0 # "" THEN [panic |-> f0, nodes |-> self.nodes, hashed |-> <<>>]
       ELSE LET ns1 == [self.nodes EXCEPT ![leaf] = value]
                p == parent_index(usize_sub(self.depth, 1), offset)
                po == IF p = PANIC THEN <<PANIC, PANIC>> ELSE depth_offset(p)
            IN IF po[1] = PANIC
               THEN [panic |-> "arithmetic overflow", nodes |-> ns1, hashed |-> <<>>]
               ELSE set_loop(ns1, po[1], po[2], <<>>)

----------------------------------------------------------------------------
\* MerkleTree::create_proof

\* mutant: the sibling is always taken to the right
sibling_offset_right(current_offset) == usize_add(current_offset, 1)

\* the sibling of current_offset within its layer
sibling_offset(current_offset) ==
    IF current_offset % 2 = 0
    THEN usize_add(current_offset, 1)
    ELSE usize_sub(current_offset, 1)

\* mutant: the flag tells whether the sibling, not the path node, is the left child
proof_pair_sibling_side(sibling_hash, current_offset) ==
    [hash |-> sibling_hash, is_left |-> (current_offset % 2 = 1)]

\* the pair create_proof pushes for the path node at current_offset
proof_pair(sibling_hash, current_offset) ==
    [hash |-> sibling_hash, is_left |-> (current_offset % 2 = 0)]

\* the `while current_layer > 0` loop; a panic returns no proof
RECURSIVE create_proof_loop(_, _, _, _)
create_proof_loop(self, current_offset, current_layer, proof) ==
    IF ~(current_layer > 0) THEN [panic |-> "", proof |-> proof]
    ELSE LET sibling_index == index(current_layer, sibling_offset(current_offset))
             f == fault(self.nodes, sibling_index)
         IN IF f # "" THEN [panic |-> f, proof |-> <<>>]
            ELSE create_proof_loop(self, current_offset \div 2, current_layer - 1,
                    Append(proof, proof_pair(self.nodes[sibling_index], current_offset)))

create_proof(self, offset) ==
    create_proof_loop(self, offset, usize_sub(self.depth, 1), <<>>)

----------------------------------------------------------------------------
\* MerkleTree::verify_proof

\* mutant: the right-hand branch feeds the sibling twice and drops the current value
verify_step_sibling_twice(current_value, pair) ==
    IF pair.is_left
    THEN hash(current_value, pair.hash)
    ELSE hash(pair.hash, pair.hash)

\* mutant: the two branches hash in each other's order
verify_step_swapped(current_value, pair) ==
    IF pair.is_left
    THEN hash(pair.hash, current_value)
    ELSE hash(current_value, pair.hash)

\* one iteration of `for (hash, is_left) in proof`
verify_step(current_value, pair) ==
    IF pair.is_left
    THEN hash(current_value, pair.hash)
    ELSE hash(pair.hash, current_value)

RECURSIVE verify_proof_loop(_, _)
verify_proof_loop(current_value, proof) ==
    IF proof = <<>> THEN current_value
    ELSE verify_proof_loop(verify_step(current_value, Head(proof)), Tail(proof))

\* mutant: the result is compared with the root of the tree the method is called on
verify_proof_against_root(self, value, proof) ==
    LET r == verify_proof_loop(value, proof)
    IN IF r = self.nodes[0] THEN r ELSE NoDigest

\* &self is a parameter of the method and is not read
verify_proof(self, value, proof) == verify_proof_loop(value, proof)

----------------------------------------------------------------------------
\* The program: a caller builds one tree and calls its public methods, one call
\* at a time.  call and ret hold the last call and its result until the caller
\* goes on.  A panic ends the run; the tree is left as the panicking call left it.

self == [depth |-> depth, nodes |-> nodes]

NoCall == [op |-> "", depth |-> 0, offset |-> 0, value |-> NoDigest, proof |-> <<>>]

NoRet == [panic |-> "", value |-> NoDigest, proof |-> <<>>, num |-> 0, hashed |-> <<>>]

NoProof == [some |-> FALSE, offset |-> 0, proof |-> <<>>, root |-> NoDigest, at |-> 0]

\* The inputs the caller draws from.
DepthInputs == 0..MaxDepth

OffsetInputs == 0..(2^(MaxDepth - 1) + 1) \cup {WordModulus - 2, WordModulus - 1}

ProofPairs == [hash : Values, is_left : BOOLEAN]

\* proofs that no create_proof returned: the empty one, every one-pair proof,
\* the two-pair proofs whose pairs differ in digest and in side, and one proof
\* per pair that is longer than any tree's
ArbitraryProofs ==
    UNION {[1..n -> ProofPairs] : n \in 0..1}
        \cup {<<p, q>> : <<p, q>> \in
                {pq \in ProofPairs \X ProofPairs :
                    pq[1].hash # pq[2].hash /\ pq[1].is_left # pq[2].is_left}}
        \cup {[i \in 1..MaxDepth |-> p] : p \in ProofPairs}

ProofInputs == ArbitraryProofs \cup (IF held.some THEN {held.proof} ELSE {})

AfterCall(panic) == IF panic = "" THEN "returned" ELSE "panicked"

Init ==
    /\ overflow_checks \in BOOLEAN
    /\ phase = "start"
    /\ depth = 0
    /\ nodes = <<>>
    /\ call = NoCall
    /\ ret = NoRet
    /\ held = NoProof
    /\ nsets = 0

New(d, initial_value) ==
    /\ phase = "start"
    /\ LET r == new(d, initial_value)
       IN /\ phase' = AfterCall(r.panic)
          /\ depth' = r.depth
          /\ nodes' = r.nodes
          /\ call' = [NoCall EXCEPT !.op = "new", !.depth = d, !.value = initial_value]
          /\ ret' = [NoRet EXCEPT !.panic = r.panic, !.hashed = r.hashed]
    /\ UNCHANGED <<overflow_checks, held, nsets>>

Set(offset, value) ==
    /\ phase = "idle"
    /\ nsets < MaxSets
    /\ LET r == set(self, offset, value)
       IN /\ phase' = AfterCall(r.panic)
          /\ nodes' = r.nodes
          /\ call' = [NoCall EXCEPT !.op = "set", !.offset = offset, !.value = value]
          /\ ret' = [NoRet EXCEPT !.panic = r.panic, !.hashed = r.hashed]
          /\ nsets' = IF r.panic = "" THEN nsets + 1 ELSE nsets
    /\ UNCHANGED <<overflow_checks, depth, held>>

CreateProof(offset) ==
    /\ phase = "idle"
    /\ LET r == create_proof(self, offset)
       IN /\ phase' = AfterCall(r.panic)
          /\ call' = [NoCall EXCEPT !.op = "create_proof", !.offset = offset]
          /\ ret' = [NoRet EXCEPT !.panic = r.panic, !.proof = r.proof]
          /\ held' = IF r.panic = ""
                     THEN [some |-> TRUE, offset |-> offset, proof |-> r.proof,
                           root |-> root_hash(self), at |-> nsets]
                     ELSE held
    /\ UNCHANGED <<overflow_checks, depth, nodes, nsets>>

VerifyProof(value, proof) ==
    /\ phase = "idle"
    /\ phase' = "returned"
    /\ call' = [NoCall EXCEPT !.op = "verify_proof", !.value = value, !.proof = proof]
    /\ ret' = [NoRet EXCEPT !.value = verify_proof(self, value, proof)]
    /\ UNCHANGED <<overflow_checks, depth, nodes, held, nsets>>

RootHash ==
    /\ phase = "idle"
    /\ phase' = "returned"
    /\ call' = [NoCall EXCEPT !.op = "root_hash"]
    /\ ret' = [NoRet EXCEPT !.value = root_hash(self)]
    /\ UNCHANGED <<overflow_checks, depth, nodes, held, nsets>>

NumLeaves ==
    /\ phase = "idle"
    /\ phase' = "returned"
    /\ call' = [NoCall EXCEPT !.op = "num_leaves"]
    /\ ret' = [NoRet EXCEPT !.num = num_leaves(self)]
    /\ UNCHANGED <<overflow_checks, depth, nodes, held, nsets>>

\* the caller is done with what the last call returned and goes on
Drop ==
    /\ phase = "returned"
    /\ phase' = "idle"
    /\ call' = NoCall
    /\ ret' = NoRet
    /\ UNCHANGED <<overflow_checks, depth, nodes, held, nsets>>

Next ==
    \/ \E d \in DepthInputs, v \in Values : New(d, v)
    \/ \E o \in OffsetInputs, v \in Values : Set(o, v)
    \/ \E o \in OffsetInputs : CreateProof(o)
    \/ \E v \in Values, p \in ProofInputs : VerifyProof(v, p)
    \/ RootHash
    \/ NumLeaves
    \/ Drop

Spec == Init /\ [][Next]_vars

----------------------------------------------------------------------------
\* The index functions called on their own, as the unit tests of the module call
\* them: associated functions that take no tree.  call holds the arguments, ret
\* the result.

\* the layers the calls range over: the layers of a tree one deeper than MaxDepth
IndexLayers == 0..MaxDepth

NoIndexCall == [op |-> "", layer |-> 0, offset |-> 0, index |-> 0]

NoIndexRet == [index |-> 0, pair |-> <<>>]

InitIndex ==
    /\ overflow_checks \in BOOLEAN
    /\ phase = "start"
    /\ depth = 0
    /\ nodes = <<>>
    /\ call = NoIndexCall
    /\ ret = NoIndexRet
    /\ held = NoProof
    /\ nsets = 0

IndexCall(layer, offset) ==
    /\ call' = [NoIndexCall EXCEPT !.op = "index", !.layer = layer, !.offset = offset]
    /\ ret' = [NoIndexRet EXCEPT !.index = index(layer, offset)]
    /\ UNCHANGED <<overflow_checks, phase, depth, nodes, held, nsets>>

ParentIndexCall(layer, offset) ==
    /\ call' = [NoIndexCall EXCEPT !.op = "parent_index", !.layer = layer,
                                   !.offset = offset]
    /\ ret' = [NoIndexRet EXCEPT !.index = parent_index(layer, offset)]
    /\ UNCHANGED <<overflow_checks, phase, depth, nodes, held, nsets>>

FirstChildIndexCall(layer, offset) ==
    /\ call' = [NoIndexCall EXCEPT !.op = "first_child_index", !.layer = layer,
                                   !.offset = offset]
    /\ ret' = [NoIndexRet EXCEPT !.index = first_child_index(layer, offset)]
    /\ UNCHANGED <<overflow_checks, phase, depth, nodes, held, nsets>>

SecondChildIndexCall(layer, offset) ==
    /\ call' = [NoIndexCall EXCEPT !.op = "second_child_index", !.layer = layer,
                                   !.offset = offset]
    /\ ret' = [NoIndexRet EXCEPT !.index = second_child_index(layer, offset)]
    /\ UNCHANGED <<overflow_checks, phase, depth, nodes, held, nsets>>

DepthOffsetCall(i) ==
    /\ call' = [NoIndexCall EXCEPT !.op = "depth_offset", !.index = i]
    /\ ret' = [NoIndexRet EXCEPT !.pair = depth_offset(i)]
    /\ UNCHANGED <<overflow_checks, phase, depth, nodes, held, nsets>>

Log2Call(x) ==
    /\ call' = [NoIndexCall EXCEPT !.op = "log2", !.index = x]
    /\ ret' = [NoIndexRet EXCEPT !.index = log2(x)]
    /\ UNCHANGED <<overflow_checks, phase, depth, nodes, held, nsets>>

NextIndex ==
    \/ \E l \in IndexLayers : \E o \in 0..(2^l - 1) : IndexCall(l, o)
    \/ \E l \in IndexLayers \ {0} : \E o \in 0..(2^l - 1) : ParentIndexCall(l, o)
    \/ \E l \in IndexLayers \ {MaxDepth} : \E o \in 0..(2^l - 1) :
          FirstChildIndexCall(l, o)
    \/ \E l \in IndexLayers \ {MaxDepth} : \E o \in 0..(2^l - 1) :
          SecondChildIndexCall(l, o)
    \/ \E i \in 0..(2^(MaxDepth + 1) - 2) : DepthOffsetCall(i)
    \/ \E x \in 0..(2^(MaxDepth + 1)) : Log2Call(x)

SpecIndex == InitIndex /\ [][NextIndex]_vars

----------------------------------------------------------------------------
\* Vocabulary of the properties.  These are written with plain integer
\* arithmetic, not with the index functions of the code.

\* a tree has been constructed
HasTree == depth >= 1

NumLeafNodes == 2^(depth - 1)

LeafIndex(offset) == (2^(depth - 1) - 1) + offset

InternalIndices == 0..(2^(depth - 1) - 2)

\* the last call was a set whose offset is outside [0, num_leaves)
LastSetOutOfRange == call.op = "set" /\ call.offset >= NumLeafNodes

\* the tree was constructed and every set so far had a valid offset
ValidHistory == HasTree /\ ~LastSetOutOfRange

\* the digest of the subtree rooted at (layer, offset), hashed from the leaves up
RECURSIVE SubtreeDigest(_, _)
SubtreeDigest(layer, offset) ==
    IF layer = depth - 1 THEN nodes[LeafIndex(offset)]
    ELSE hash(SubtreeDigest(layer + 1, 2 * offset), SubtreeDigest(layer + 1, 2 * offset + 1))

\* the whole node array rebuilt from the current leaves
RebuiltNodes ==
    [i \in 0..(2^depth - 2) |->
        LET l == CHOOSE l2 \in 0..(depth - 1) : 2^l2 - 1 <= i /\ i < 2^(l2 + 1) - 1
        IN SubtreeDigest(l, i - (2^l - 1))]

\* x hashed with itself n times: H^n(x) for H(x) = hash(x || x)
RECURSIVE IteratedHash(_, _)
IteratedHash(n, x) ==
    IF n = 0 THEN x ELSE LET y == IteratedHash(n - 1, x) IN hash(y, y)

----------------------------------------------------------------------------
\* C1: after construction and after any sequence of set calls with valid
\* offsets, every non-leaf node i holds hash(nodes[2i+1] || nodes[2i+2]), the
\* left child's bytes first.
C1_NodeInvariant ==
    ValidHistory =>
        \A i \in InternalIndices : nodes[i] = hash(nodes[2 * i + 1], nodes[2 * i + 2])

\* a depth-3 tree after two sets that returned, whose leaves are not all equal
C1_Witness ==
    /\ depth = 3 /\ call.op = "set" /\ ret.panic = "" /\ nsets = 2
    /\ nodes[3] # nodes[4] /\ nodes[5] # nodes[6]

\* C3: the incrementally maintained node array, and so the root, equals the
\* array rebuilt bottom-up from the current leaves.
C3_IncrementalEqualsFull ==
    ValidHistory => (nodes = RebuiltNodes /\ root_hash(self) = SubtreeDigest(0, 0))

\* a depth-3 tree whose right half was updated by a set that returned
C3_Witness ==
    /\ depth = 3 /\ call.op = "set" /\ ret.panic = "" /\ call.offset = 3
    /\ nodes[6] # nodes[5]

\* C4: right after new(depth, V), every node of layer l holds H applied
\* depth-1-l times to V, so the leaves hold V and the root H^(depth-1)(V); this
\* is the array that hashing every node from its children gives.
C4_ConstructLayers ==
    (call.op = "new" /\ ret.panic = "") =>
        /\ \A l \in 0..(depth - 1) : \A o \in 0..(2^l - 1) :
              nodes[(2^l - 1) + o] = IteratedHash(depth - 1 - l, call.value)
        /\ nodes = RebuiltNodes

\* a freshly constructed tree of depth 3
C4_Witness == call.op = "new" /\ phase = "returned" /\ depth = 3 /\ nodes[0] = hash(nodes[1], nodes[2])

----------------------------------------------------------------------------
\* C2: round trip.  In every state reached by construction and valid sets,
\* whenever the caller is between calls or the run has ended, for every offset
\* in [0, num_leaves), verify_proof(current value of that leaf,
\* create_proof(offset)) equals root_hash(); and every verify_proof call made
\* with the proof the caller holds from a create_proof of the current tree for
\* a valid offset, and with that leaf's current value, returned the root.
C2_RoundTrip ==
    ValidHistory =>
        /\ phase # "returned" =>
              \A o \in 0..(NumLeafNodes - 1) :
                  LET p == create_proof(self, o)
                  IN /\ p.panic = ""
                     /\ verify_proof(self, nodes[LeafIndex(o)], p.proof) = root_hash(self)
        /\ (/\ call.op = "verify_proof"
            /\ held.some /\ held.at = nsets /\ held.offset < NumLeafNodes
            /\ call.proof = held.proof
            /\ call.value = nodes[LeafIndex(held.offset)])
           => ret.value = nodes[0]

\* verify_proof was called on a depth-3 tree, after a set, with the proof just
\* created for a leaf and that leaf's value, and returned the root
C2_Witness ==
    /\ depth = 3 /\ nsets >= 1 /\ nodes[3] # nodes[4]
    /\ call.op = "verify_proof"
    /\ held.some /\ held.at = nsets /\ held.offset = 1
    /\ call.proof = held.proof
    /\ call.value = nodes[LeafIndex(held.offset)]
    /\ ret.value = nodes[0]

----------------------------------------------------------------------------
\* C5 (as claimed): a set with an offset >= num_leaves fails and leaves every
\* node of the tree as it was before the call.
C5_SetOutOfRangeRejected ==
    [][\A o \in OffsetInputs, v \in Values :
          (Set(o, v) /\ o >= NumLeafNodes) => (ret'.panic # "" /\ nodes' = nodes)]_vars

\* C6 (as claimed): a create_proof with an offset >= num_leaves fails, for
\* every depth >= 1.
C6_CreateProofOutOfRangeRejected ==
    (HasTree /\ call.op = "create_proof" /\ call.offset >= NumLeafNodes) =>
        (ret.panic # "" /\ ret.proof = <<>>)

\* C7 (as claimed): a set with a valid offset returns without error for every
\* depth >= 1; afterwards the leaf holds the new value and, at depth 1, so
\* does the root.
C7_SetValidSucceeds ==
    (HasTree /\ call.op = "set" /\ call.offset < NumLeafNodes) =>
        /\ ret.panic = ""
        /\ nodes[LeafIndex(call.offset)] = call.value
        /\ (depth = 1 => root_hash(self) = call.value)

----------------------------------------------------------------------------
\* The pair create_proof is to return at position k (from 0) for the leaf at
\* offset: the digest of the sibling of node (depth-1-k, offset div 2^k), and
\* whether that path node is the left child.
ExpectedPair(offset, k) ==
    LET layer == depth - 1 - k
        path == offset \div (2^k)
        sibling == IF path % 2 = 0 THEN path + 1 ELSE path - 1
    IN [hash |-> nodes[(2^layer - 1) + sibling], is_left |-> (path % 2 = 0)]

\* C8: for a valid offset, create_proof returns exactly depth-1 pairs ordered
\* leaf to root, the k-th being (digest of the sibling of the path node at
\* layer depth-1-k, path node is the left child), and leaves the tree as it was.
\* (Only a create_proof call makes create_proof the last call.)
C8_CreateProofPairs ==
    [][(phase = "idle" /\ call'.op = "create_proof" /\ call'.offset < NumLeafNodes) =>
          /\ nodes' = nodes /\ depth' = depth
          /\ ret'.panic = ""
          /\ Len(ret'.proof) = depth - 1
          /\ \A k \in 0..(depth - 2) : ret'.proof[k + 1] = ExpectedPair(call'.offset, k)]_vars

\* create_proof(2) returned on a depth-3 tree whose leaves were updated: the
\* path node is a left child at the leaf layer and a right child above it
C8_Witness ==
    /\ depth = 3 /\ nsets >= 1 /\ nodes[1] # nodes[2]
    /\ call.op = "create_proof" /\ call.offset = 2 /\ ret.panic = ""
    /\ Len(ret.proof) = 2
    /\ ret.proof[1] = [hash |-> nodes[6], is_left |-> TRUE]
    /\ ret.proof[2] = [hash |-> nodes[1], is_left |-> FALSE]

\* the fold of the first n pairs of proof, starting from value
RECURSIVE FoldProof(_, _, _)
FoldProof(value, proof, n) ==
    IF n = 0 THEN value
    ELSE LET acc == FoldProof(value, proof, n - 1)
         IN IF proof[n].is_left THEN hash(acc, proof[n].hash) ELSE hash(proof[n].hash, acc)

\* C9: verify_proof never fails; for a proof of any length it returns the fold
\* of the pairs in order from the leaf value, hash(acc || sibling) when the
\* flag is true and hash(sibling || acc) when it is false; for the empty proof
\* it returns the leaf value.
C9_VerifyProofFolds ==
    call.op = "verify_proof" =>
        /\ ret.panic = ""
        /\ ret.value = FoldProof(call.value, call.proof, Len(call.proof))
        /\ (call.proof = <<>> => ret.value = call.value)

\* verify_proof returned for a proof longer than depth-1 whose path node is a
\* right child
C9_Witness ==
    /\ call.op = "verify_proof" /\ depth = 2
    /\ Len(call.proof) = MaxDepth /\ ~call.proof[1].is_left
    /\ ret.value # NoDigest

\* the freshly constructed tree of depth d and initial value v
OtherTree(d, v) == LET r == new(d, v) IN [depth |-> r.depth, nodes |-> r.nodes]

OtherTrees == {OtherTree(d, v) : d \in 1..MaxDepth, v \in Values}

\* C10: the digest verify_proof returns depends on its arguments alone: called
\* on any other tree (another depth, other node contents) with the same leaf
\* value and proof it returns the same digest; and the call leaves the tree it
\* was made on as it was.
C10_VerifyProofIgnoresTree ==
    [][(phase = "idle" /\ call'.op = "verify_proof") =>
          /\ nodes' = nodes /\ depth' = depth
          /\ \A d \in 1..MaxDepth, v \in Values :
                verify_proof(OtherTree(d, v), call'.value, call'.proof) = ret'.value]_vars

\* verify_proof returned the root of an updated depth-3 tree, a tree that is
\* none of the freshly constructed ones
C10_Witness ==
    /\ depth = 3 /\ nsets >= 1 /\ self \notin OtherTrees
    /\ call.op = "verify_proof" /\ Len(call.proof) = 2
    /\ ret.value = nodes[0]

----------------------------------------------------------------------------
\* the leaf at offset and its ancestors, one index per layer
PathIndices(offset) ==
    {(2^l - 1) + (offset \div 2^(depth - 1 - l)) : l \in 0..(depth - 1)}

\* C11: a set that returns changes only the leaf at (depth-1, offset) and that
\* leaf's ancestors; every other node holds the digest it held before the call.
\* (Only a set call makes set the last call.)
C11_SetFrame ==
    [][(phase = "idle" /\ call'.op = "set" /\ ret'.panic = "") =>
          /\ DOMAIN nodes' = DOMAIN nodes
          /\ \A i \in DOMAIN nodes :
                i \notin PathIndices(call'.offset) => nodes'[i] = nodes[i]]_vars

\* a set that returned on a depth-3 tree changed leaf 2, its parent and the
\* root, next to an untouched left half whose leaves differ
C11_Witness ==
    /\ depth = 3 /\ call.op = "set" /\ ret.panic = "" /\ call.offset = 2
    /\ nodes[5] = call.value /\ nodes[5] # nodes[6]
    /\ nodes[3] # nodes[4]

\* C12: in every state after construction the array holds 2^depth - 1 nodes and
\* depth is the value given to new; no later call, returning or panicking,
\* changes either.
C12_ShapeFixed ==
    [][/\ (phase = "start" /\ ret'.panic = "") =>
              /\ depth' = call'.depth
              /\ DOMAIN nodes' = 0..(2^depth' - 2)
       /\ phase # "start" =>
              /\ depth' = depth
              /\ DOMAIN nodes' = DOMAIN nodes
              /\ HasTree => DOMAIN nodes' = 0..(2^depth' - 2)]_vars

\* a depth-3 tree after two sets and a call that panicked still has 7 nodes
C12_Witness ==
    /\ phase = "panicked" /\ depth = 3 /\ nsets = MaxSets
    /\ call.op \in {"set", "create_proof"}
    /\ DOMAIN nodes = 0..6

\* C13: new with a depth below 1 (depth 0, depth being unsigned) panics with the
\* configuration message and leaves no tree behind, not even an empty one.
C13_NewRejectsDepthZero ==
    (call.op = "new" /\ call.depth < 1) =>
        /\ phase = "panicked"
        /\ ret.panic = "Merkle tree depth must be at least 1"
        /\ ~HasTree
        /\ nodes = <<>>

\* new(0, v) was called and panicked
C13_Witness ==
    call.op = "new" /\ call.depth = 0 /\ phase = "panicked" /\ ret.panic # ""

SetReturns == phase = "idle" /\ call'.op = "set" /\ ret'.panic = ""

LeafIndices == (2^(depth - 1) - 1)..(2^depth - 2)

\* C16: num_leaves returns 2^(depth-1), the number of nodes at the leaf-layer
\* indices 2^(depth-1)-1 .. 2^depth-2, and root_hash returns nodes[0]; both
\* return in every tree and leave the tree as it was.
C16_Observers ==
    [][/\ (phase = "idle" /\ call'.op = "num_leaves") =>
              /\ ret'.num = 2^(depth - 1)
              /\ ret'.num = Cardinality(LeafIndices)
              /\ LeafIndices \subseteq DOMAIN nodes
              /\ \A i \in DOMAIN nodes : i \in LeafIndices \/ i < 2^(depth - 1) - 1
              /\ ret'.panic = "" /\ phase' = "returned"
              /\ nodes' = nodes /\ depth' = depth
       /\ (phase = "idle" /\ call'.op = "root_hash") =>
              /\ ret'.value = nodes[0]
              /\ ret'.panic = "" /\ phase' = "returned"
              /\ nodes' = nodes /\ depth' = depth]_vars

\* num_leaves returned 4 on a depth-3 tree
C16_Witness ==
    call.op = "num_leaves" /\ depth = 3 /\ ret.num = 4 /\ phase = "returned"

\* C17: no offset outside 0..num_leaves-1 given to set or create_proof, however
\* close to the top of the usize range, wraps onto an index of the array: set
\* writes no node for it and create_proof reads none into a proof.
C17_NoWrappedAccess ==
    [][(/\ phase = "idle" /\ call'.op \in {"set", "create_proof"}
        /\ call'.offset >= NumLeafNodes) =>
          /\ nodes' = nodes
          /\ ret'.proof = <<>>]_vars

\* C18: set on a tree of depth >= 2 with a valid offset returns after
\* recomputing exactly depth-1 nodes, the ancestor of the leaf in each of the
\* layers depth-2, ..., 0 in that order, each from its two children as the call
\* leaves them, the root last; new evaluates the hash depth-1 times, once for
\* each of the layers depth-2, ..., 0.
C18_BoundedWalk ==
    /\ (call.op = "set" /\ depth >= 2 /\ call.offset < NumLeafNodes) =>
          /\ ret.panic = "" /\ phase = "returned"
          /\ Len(ret.hashed) = depth - 1
          /\ \A k \in 1..(depth - 1) :
                LET i == (2^(depth - 1 - k) - 1) + (call.offset \div 2^k)
                IN /\ ret.hashed[k] = i
                   /\ nodes[i] = hash(nodes[2 * i + 1], nodes[2 * i + 2])
          /\ ret.hashed[depth - 1] = 0
    /\ (call.op = "new" /\ ret.panic = "") =>
          /\ Len(ret.hashed) = depth - 1
          /\ \A k \in 1..(depth - 1) : ret.hashed[k] = depth - 1 - k

\* set(3, v) returned on a depth-3 tree after recomputing node 2, then the root
C18_Witness ==
    /\ call.op = "set" /\ depth = 3 /\ call.offset = 3 /\ ret.panic = ""
    /\ ret.hashed = <<2, 0>>

\* C19: with a proof held that create_proof made for leaf b of the tree as it
\* is, a set that returns for another leaf a with a value leaf a does not hold
\* leaves the held proof bound to the old root: verify_proof of leaf b's value
\* with it still yields the root before the set, which is not the root after
\* it, while the proof create_proof makes for b after the set verifies to the
\* root after it.
C19_ProofBoundToRoot ==
    [][(/\ SetReturns
        /\ held.some /\ held.at = nsets /\ held.offset < NumLeafNodes
        /\ call'.offset # held.offset
        /\ call'.value # nodes[LeafIndex(call'.offset)]) =>
          LET b == LeafIndex(held.offset)
              fresh == create_proof(self', held.offset)
          IN /\ nodes'[b] = nodes[b]
             /\ verify_proof(self', nodes'[b], held.proof) = root_hash(self)
             /\ root_hash(self) = held.root
             /\ root_hash(self)' # root_hash(self)
             /\ fresh.panic = ""
             /\ verify_proof(self', nodes'[b], fresh.proof) = root_hash(self)']_vars

\* on a depth-3 tree the caller verified leaf 0's value with the proof made for
\* leaf 0 one set ago: the result is the root of that time, not today's
C19_Witness ==
    /\ call.op = "verify_proof" /\ depth = 3
    /\ held.some /\ held.offset = 0 /\ held.at = nsets - 1
    /\ call.proof = held.proof /\ call.value = nodes[LeafIndex(0)]
    /\ ret.value = held.root /\ ret.value # nodes[0]

\* the positions of a tree of depth d, and the index of a position
Positions(d) == {<<l, o>> \in (0..(d - 1)) \X (0..(2^(d - 1) - 1)) : o < 2^l}

PlainIndex(layer, offset) == (2^layer - 1) + offset

\* C20: index(layer, offset) is (2^layer - 1) + offset and maps the positions of
\* a tree of depth d one-to-one onto 0 .. 2^d - 2; depth_offset inverts it; the
\* children of position (layer, offset) are at indices 2i+1 and 2i+2 of its own
\* index i, and parent_index of either child's position is i.
C20_IndexArithmetic ==
    /\ call.op = "index" =>
          ret.index = PlainIndex(call.layer, call.offset)
    /\ call.op = "depth_offset" =>
          /\ Len(ret.pair) = 2
          /\ ret.pair[2] < 2^ret.pair[1]
          /\ PlainIndex(ret.pair[1], ret.pair[2]) = call.index
          /\ depth_offset(index(ret.pair[1], ret.pair[2])) = ret.pair
    /\ call.op = "parent_index" =>
          ret.index = PlainIndex(call.layer - 1, call.offset \div 2)
    /\ call.op = "first_child_index" =>
          /\ ret.index = 2 * PlainIndex(call.layer, call.offset) + 1
          /\ depth_offset(ret.index) = <<call.layer + 1, 2 * call.offset>>
          /\ parent_index(call.layer + 1, 2 * call.offset) =
                 index(call.layer, call.offset)
    /\ call.op = "second_child_index" =>
          /\ ret.index = 2 * PlainIndex(call.layer, call.offset) + 2
          /\ depth_offset(ret.index) = <<call.layer + 1, 2 * call.offset + 1>>
          /\ parent_index(call.layer + 1, 2 * call.offset + 1) =
                 index(call.layer, call.offset)
    /\ call.op = "log2" =>
          (call.index > 0 => 2^ret.index <= call.index /\ call.index < 2^(ret.index + 1))
    /\ \A d \in 1..(MaxDepth + 1) :
          /\ {index(p[1], p[2]) : p \in Positions(d)} = 0..(2^d - 2)
          /\ \A p, q \in Positions(d) :
                index(p[1], p[2]) = index(q[1], q[2]) => p = q
          /\ \A p \in Positions(d) : depth_offset(index(p[1], p[2])) = p

\* second_child_index(2, 3) returned 14, the last index of a depth-4 tree
C20_Witness ==
    /\ call.op = "second_child_index" /\ call.layer = 2 /\ call.offset = 3
    /\ ret.index = 14

====
